---- MODULE Spec2Model ----
(***************************************************************************)
(* A model of the SkillVouch Express/MySQL backends:                       *)
(*   - Backend/server.js: the connection check with its retry timer, the   *)
(*     guarded query() helper and the user / login handlers;               *)
(*   - Backend/server-production.js: the connection check driven by the    *)
(*     initial call, the 5 s retry timers and the 30 s interval, and the   *)
(*     login handler;                                                      *)
(*   - the JSON (de)serialisation of the skills columns;                   *)
(*   - Backend/server.js: the exchange request and the message routes.     *)
(***************************************************************************)
EXTENDS Integers, Sequences, FiniteSets, TLC

VARIABLES
    phase,                  \* server.js: position of initializeServer
    dbConnected,            \* server.js: let dbConnected
    dbConnectionAttempts,   \* server.js: let dbConnectionAttempts
    retryTimer,             \* server.js: a setTimeout(checkDatabaseConnection) is pending
    users,                  \* server.js: the users table, id -> row
    last,                   \* server.js: the last request handled and its response
    pDbConnected,           \* server-production.js: let dbConnected
    pAttempts,              \* server-production.js: let dbConnectionAttempts
    pInFlight,              \* server-production.js: checks awaiting the pool's answer
    pTimers,                \* server-production.js: pending 5 s retry timers
    pStarted,               \* server-production.js: the initial check has been called
    pUsers,                 \* server-production.js: the users table
    pLast,                  \* server-production.js: the last request and its response
    jIn,                    \* round trip: the skills values written
    jUsers,                 \* round trip: the users table
    jOut,                   \* round trip: the response to the last request
    driverParsesJson,       \* the driver returns a JSON column parsed, not as text
    exchange_requests,      \* server.js: the exchange_requests table, id -> row
    xLast,                  \* server.js: the last exchange request route handled
    messages,               \* server.js: the messages table, id -> row
    mLast                   \* server.js: the last messages route handled

vars == <<phase, dbConnected, dbConnectionAttempts, retryTimer, users, last,
          pDbConnected, pAttempts, pInFlight, pTimers, pStarted, pUsers, pLast,
          jIn, jUsers, jOut, driverParsesJson,
          exchange_requests, xLast, messages, mLast>>

serverVars == <<phase, dbConnected, dbConnectionAttempts, retryTimer, users, last>>
prodVars   == <<pDbConnected, pAttempts, pInFlight, pTimers, pStarted, pUsers, pLast>>
jsonVars   == <<jIn, jUsers, jOut>>
exchVars   == <<exchange_requests, xLast>>
msgVars    == <<messages, mLast>>

(***************************************************************************)
(* JavaScript values.  Strings that go through JSON are sequences of       *)
(* one-character strings, so that quoting, escaping and trimming are       *)
(* computed and not assumed.                                                *)
(***************************************************************************)
JUndef    == [t |-> "undefined"]
JNull     == [t |-> "null"]
JBool(b)  == [t |-> "boolean", b |-> b]
JNum(n)   == [t |-> "number", n |-> n]
JStr(s)   == [t |-> "string", s |-> s]
JArr(xs)  == [t |-> "array", a |-> xs]
JObj(kvs) == [t |-> "object", o |-> kvs]

\* !v
Falsy(v) ==
    \/ v.t \in {"undefined", "null"}
    \/ v.t = "boolean" /\ ~v.b
    \/ v.t = "number" /\ v.n = 0
    \/ v.t = "string" /\ v.s = <<>>

\* typeof v === 'object'
TypeofObject(v) == v.t \in {"null", "array", "object"}

\* v[key] of an object; undefined when absent or when v is not a plain object
RECURSIVE Lookup(_, _)
Lookup(kvs, key) ==
    IF kvs = <<>> THEN JUndef
    ELSE IF Head(kvs)[1] = key THEN Head(kvs)[2]
    ELSE Lookup(Tail(kvs), key)

Get(v, key) == IF v.t = "object" THEN Lookup(v.o, key) ELSE JUndef

IsWhite(c) == c \in {" ", "\n", "\t", "\r"}

\* String.prototype.trim
RECURSIVE TrimLeft(_)
TrimLeft(s) ==
    IF s # <<>> /\ IsWhite(Head(s)) THEN TrimLeft(Tail(s)) ELSE s

RECURSIVE TrimRight(_)
TrimRight(s) ==
    IF s # <<>> /\ IsWhite(s[Len(s)]) THEN TrimRight(SubSeq(s, 1, Len(s) - 1)) ELSE s

Trim(s) == TrimRight(TrimLeft(s))

(***************************************************************************)
(* JSON.stringify                                                          *)
(***************************************************************************)
Digits == <<"0", "1", "2", "3", "4", "5", "6", "7", "8", "9">>

RECURSIVE NatText(_)
NatText(n) ==
    IF n < 10 THEN <<Digits[n + 1]>>
    ELSE NatText(n \div 10) \o <<Digits[(n % 10) + 1]>>

RECURSIVE Quote(_)
Quote(s) ==
    IF s = <<>> THEN <<>>
    ELSE LET c == Head(s)
         IN  (CASE c = "\"" -> <<"\\", "\"">>
                [] c = "\\" -> <<"\\", "\\">>
                [] c = "\n" -> <<"\\", "n">>
                [] c = "\t" -> <<"\\", "t">>
                [] c = "\r" -> <<"\\", "r">>
                [] OTHER    -> <<c>>) \o Quote(Tail(s))

RECURSIVE JSONstringify(_)
RECURSIVE StringifyItems(_)
RECURSIVE StringifyMembers(_, _)

\* the elements of an array, comma separated; undefined is written null
StringifyItems(xs) ==
    IF xs = <<>> THEN <<>>
    ELSE (IF Head(xs).t = "undefined" THEN <<"n", "u", "l", "l">>
          ELSE JSONstringify(Head(xs)))
         \o (IF Len(xs) > 1 THEN <<",">> \o StringifyItems(Tail(xs)) ELSE <<>>)

\* the members of an object; a member whose value is undefined is left out
StringifyMembers(kvs, first) ==
    IF kvs = <<>> THEN <<>>
    ELSE IF Head(kvs)[2].t = "undefined" THEN StringifyMembers(Tail(kvs), first)
    ELSE (IF first THEN <<>> ELSE <<",">>)
         \o <<"\"">> \o Quote(Head(kvs)[1]) \o <<"\"", ":">>
         \o JSONstringify(Head(kvs)[2])
         \o StringifyMembers(Tail(kvs), FALSE)

JSONstringify(v) ==
    CASE v.t = "null"    -> <<"n", "u", "l", "l">>
      [] v.t = "boolean" -> IF v.b THEN <<"t", "r", "u", "e">>
                                   ELSE <<"f", "a", "l", "s", "e">>
      [] v.t = "number"  -> NatText(v.n)
      [] v.t = "string"  -> <<"\"">> \o Quote(v.s) \o <<"\"">>
      [] v.t = "array"   -> <<"[">> \o StringifyItems(v.a) \o <<"]">>
      [] v.t = "object"  -> <<"{">> \o StringifyMembers(v.o, TRUE) \o <<"}">>

(***************************************************************************)
(* JSON.parse: a recursive-descent parser.  Every parser returns           *)
(* [ok, v, i]: whether it succeeded, the value, and the next position.     *)
(***************************************************************************)
Fail == [ok |-> FALSE, v |-> JUndef, i |-> 0]
Ok(v, i) == [ok |-> TRUE, v |-> v, i |-> i]

RECURSIVE SkipWs(_, _)
SkipWs(s, i) == IF i <= Len(s) /\ IsWhite(s[i]) THEN SkipWs(s, i + 1) ELSE i

IsDigit(c) == \E d \in 1..10 : Digits[d] = c
DigitValue(c) == (CHOOSE d \in 1..10 : Digits[d] = c) - 1

RECURSIVE ParseDigits(_, _, _)
ParseDigits(s, i, acc) ==
    IF i <= Len(s) /\ IsDigit(s[i])
    THEN ParseDigits(s, i + 1, 10 * acc + DigitValue(s[i]))
    ELSE Ok(JNum(acc), i)

\* a number: 0, or a digit 1-9 followed by digits (no leading zero)
ParseNumber(s, i) ==
    IF s[i] = "0" THEN Ok(JNum(0), i + 1) ELSE ParseDigits(s, i, 0)

\* the characters of a string after its opening quote
RECURSIVE ParseChars(_, _, _)
ParseChars(s, i, acc) ==
    IF i > Len(s) THEN Fail
    ELSE IF s[i] = "\"" THEN Ok(JStr(acc), i + 1)
    ELSE IF s[i] \in {"\n", "\t", "\r"} THEN Fail
    ELSE IF s[i] = "\\"
         THEN IF i + 1 > Len(s) THEN Fail
              ELSE CASE s[i + 1] = "\"" -> ParseChars(s, i + 2, Append(acc, "\""))
                     [] s[i + 1] = "\\" -> ParseChars(s, i + 2, Append(acc, "\\"))
                     [] s[i + 1] = "n"  -> ParseChars(s, i + 2, Append(acc, "\n"))
                     [] s[i + 1] = "t"  -> ParseChars(s, i + 2, Append(acc, "\t"))
                     [] s[i + 1] = "r"  -> ParseChars(s, i + 2, Append(acc, "\r"))
                     [] OTHER           -> Fail
    ELSE ParseChars(s, i + 1, Append(acc, s[i]))

Literal(s, i, word, v) ==
    IF i + Len(word) - 1 <= Len(s) /\ SubSeq(s, i, i + Len(word) - 1) = word
    THEN Ok(v, i + Len(word))
    ELSE Fail

RECURSIVE ParseValue(_, _)
RECURSIVE ParseItems(_, _, _)
RECURSIVE ParseMembers(_, _, _)

\* the elements of an array after "[" or ","
ParseItems(s, i, acc) ==
    LET r == ParseValue(s, i)
    IN  IF ~r.ok THEN Fail
        ELSE LET j == SkipWs(s, r.i)
             IN  IF j > Len(s) THEN Fail
                 ELSE IF s[j] = "]" THEN Ok(JArr(Append(acc, r.v)), j + 1)
                 ELSE IF s[j] = "," THEN ParseItems(s, j + 1, Append(acc, r.v))
                 ELSE Fail

\* the members of an object after "{" or ","
ParseMembers(s, i, acc) ==
    LET k == SkipWs(s, i)
    IN  IF k > Len(s) \/ s[k] # "\"" THEN Fail
        ELSE LET key == ParseChars(s, k + 1, <<>>)
             IN  IF ~key.ok THEN Fail
                 ELSE LET c == SkipWs(s, key.i)
                      IN  IF c > Len(s) \/ s[c] # ":" THEN Fail
                          ELSE LET r == ParseValue(s, c + 1)
                               IN  IF ~r.ok THEN Fail
                                   ELSE LET j == SkipWs(s, r.i)
                                            more == Append(acc, <<key.v.s, r.v>>)
                                        IN  IF j > Len(s) THEN Fail
                                            ELSE IF s[j] = "}" THEN Ok(JObj(more), j + 1)
                                            ELSE IF s[j] = "," THEN ParseMembers(s, j + 1, more)
                                            ELSE Fail

ParseValue(s, i0) ==
    LET i == SkipWs(s, i0)
    IN  IF i > Len(s) THEN Fail
        ELSE CASE s[i] = "\"" -> ParseChars(s, i + 1, <<>>)
               [] s[i] = "["  -> LET j == SkipWs(s, i + 1)
                                 IN  IF j <= Len(s) /\ s[j] = "]"
                                     THEN Ok(JArr(<<>>), j + 1)
                                     ELSE ParseItems(s, i + 1, <<>>)
               [] s[i] = "{"  -> LET j == SkipWs(s, i + 1)
                                 IN  IF j <= Len(s) /\ s[j] = "}"
                                     THEN Ok(JObj(<<>>), j + 1)
                                     ELSE ParseMembers(s, i + 1, <<>>)
               [] s[i] = "t"  -> Literal(s, i, <<"t", "r", "u", "e">>, JBool(TRUE))
               [] s[i] = "f"  -> Literal(s, i, <<"f", "a", "l", "s", "e">>, JBool(FALSE))
               [] s[i] = "n"  -> Literal(s, i, <<"n", "u", "l", "l">>, JNull)
               [] IsDigit(s[i]) -> ParseNumber(s, i)
               [] OTHER       -> Fail

\* JSON.parse(text): [ok |-> FALSE] stands for the SyntaxError it throws
WholeText(text, r) ==
    IF r.ok /\ SkipWs(text, r.i) = Len(text) + 1 THEN r ELSE Fail

JSONparse(text) == WholeText(text, ParseValue(text, 1))

(***************************************************************************)
(* server.js: safeParseJSON, validateSkill, validateSkillsArray            *)
(***************************************************************************)
Chars_name            == <<"n", "a", "m", "e">>
Chars_verified        == <<"v", "e", "r", "i", "f", "i", "e", "d">>
Chars_level           == <<"l", "e", "v", "e", "l">>
Chars_experienceYears == <<"e", "x", "p", "e", "r", "i", "e", "n", "c", "e",
                           "Y", "e", "a", "r", "s">>
Chars_availability    == <<"a", "v", "a", "i", "l", "a", "b", "i", "l", "i", "t", "y">>
Chars_beginner        == <<"b", "e", "g", "i", "n", "n", "e", "r">>

\* String(v), the conversion JSON.parse applies to its argument
Chars_object    == <<"[", "o", "b", "j", "e", "c", "t", " ",
                     "O", "b", "j", "e", "c", "t", "]">>

RECURSIVE StringOf(_)
RECURSIVE JoinItems(_)
StringOf(v) ==
    CASE v.t = "string"    -> v.s
      [] v.t = "number"    -> NatText(v.n)
      [] v.t = "boolean"   -> IF v.b THEN <<"t", "r", "u", "e">>
                                     ELSE <<"f", "a", "l", "s", "e">>
      [] v.t = "null"      -> <<"n", "u", "l", "l">>
      [] v.t = "undefined" -> <<"u", "n", "d", "e", "f", "i", "n", "e", "d">>
      [] v.t = "object"    -> Chars_object
      [] v.t = "array"     -> JoinItems(v.a)

\* Array.prototype.toString: null and undefined elements give ''
JoinItems(xs) ==
    IF xs = <<>> THEN <<>>
    ELSE (IF Head(xs).t \in {"null", "undefined"} THEN <<>> ELSE StringOf(Head(xs)))
         \o (IF Len(xs) = 1 THEN <<>> ELSE <<",">> \o JoinItems(Tail(xs)))

\* try { return JSON.parse(value) } catch (err) { return defaultValue }
ParsedOr(r, defaultValue) == IF r.ok THEN r.v ELSE defaultValue

\* value is what the driver returned for the column
safeParseJSON(value, defaultValue) ==
    IF value.t \in {"null", "undefined"} \/ (value.t = "string" /\ value.s = <<>>)
    THEN defaultValue
    ELSE ParsedOr(JSONparse(StringOf(value)), defaultValue)

\* what a validation returns: the value, or the message of the Error thrown
Valid(v)     == [ok |-> TRUE, v |-> v, message |-> ""]
Throws(text) == [ok |-> FALSE, v |-> JUndef, message |-> text]

validateSkill(skill) ==
    IF Falsy(skill) \/ ~TypeofObject(skill)
    THEN Throws("Skill must be an object")
    ELSE IF Falsy(Get(skill, Chars_name)) \/ Get(skill, Chars_name).t # "string"
    THEN Throws("Skill must have a valid name")
    ELSE Valid(JObj(<<
        <<Chars_name, JStr(Trim(Get(skill, Chars_name).s))>>,
        <<Chars_verified, JBool(Get(skill, Chars_verified) = JBool(TRUE))>>,
        <<Chars_level, IF Falsy(Get(skill, Chars_level))
                       THEN JStr(Chars_beginner) ELSE Get(skill, Chars_level)>>,
        <<Chars_experienceYears, IF Falsy(Get(skill, Chars_experienceYears))
                                 THEN JNum(0) ELSE Get(skill, Chars_experienceYears)>>,
        <<Chars_availability, IF Get(skill, Chars_availability).t = "array"
                              THEN Get(skill, Chars_availability) ELSE JArr(<<>>)>> >>))

\* skills.map(validateSkill): the first element that throws ends the map
RECURSIVE MapValidate(_, _)
MapNext(r, rest, acc) == IF r.ok THEN MapValidate(rest, Append(acc, r.v)) ELSE r

MapValidate(xs, acc) ==
    IF xs = <<>> THEN Valid(JArr(acc))
    ELSE MapNext(validateSkill(Head(xs)), Tail(xs), acc)

validateSkillsArray(skills) ==
    IF skills.t # "array" THEN Throws("Skills must be an array")
    ELSE MapValidate(skills.a, <<>>)

(***************************************************************************)
(* The users table and the SQL statements server.js sends to MySQL.        *)
(* A statement is a sequence of text fragments in which every "?" is a     *)
(* placeholder; scalar columns hold plain strings.                         *)
(***************************************************************************)
Undef   == "<undefined>"
SqlNull == "<NULL>"
IdSeq   == <<"u1", "u2">>
IDs     == {IdSeq[k] : k \in 1..Len(IdSeq)}
NoRow   == [absent |-> TRUE]
EmptyTable == [i \in IDs |-> NoRow]

\* x || ''
OrEmpty(x) == IF x \in {Undef, SqlNull, ""} THEN "" ELSE x

NoErr == [code |-> "none", message |-> <<>>]
Err(code, message) == [code |-> code, message |-> message]

\* err.message.includes('Skill') || err.message.includes('skills'), over the
\* strings of this model
WithSkill == {"Skill must be an object", "Skill must have a valid name",
              "Skills must be an array", "skills@e2.io"}
MessageIncludesSkill(message) == \E k \in 1..Len(message) : message[k] \in WithSkill

SqlSelectAll     == <<"SELECT * FROM users">>
SqlSelectById    == <<"SELECT * FROM users WHERE id = ", "?">>
SqlSelectByEmail == <<"SELECT * FROM users WHERE email = ", "?">>
SqlInsertUser ==
    <<"INSERT INTO users (id, name, email, password, bio, skills_known, skills_to_learn, discord_link, rating) VALUES (",
      "?", ", ", "?", ", ", "?", ", ", "?", ", ", "?", ", ", "?", ", ", "?", ", ", "?", ", ", "?", ")">>
SqlProbe         == <<"SELECT 1 FROM ", "?", "?", " LIMIT 1">>

\* (sql.match(/\?/g) || []).length
RECURSIVE CountMarks(_)
CountMarks(sql) ==
    IF sql = <<>> THEN 0
    ELSE (IF Head(sql) = "?" THEN 1 ELSE 0) + CountMarks(Tail(sql))

\* Array.prototype.join
RECURSIVE Join(_, _)
Join(parts, sep) ==
    IF parts = <<>> THEN <<>>
    ELSE IF Len(parts) = 1 THEN Head(parts)
    ELSE Head(parts) \o <<sep>> \o Join(Tail(parts), sep)

RECURSIVE RowsOf(_, _)
RowsOf(tbl, ids) ==
    IF ids = <<>> THEN <<>>
    ELSE (IF tbl[Head(ids)] = NoRow THEN <<>> ELSE <<tbl[Head(ids)]>>)
         \o RowsOf(tbl, Tail(ids))

RECURSIVE Filter(_, _)
Filter(rows, email) ==
    IF rows = <<>> THEN <<>>
    ELSE (IF Head(rows).email = email THEN <<Head(rows)>> ELSE <<>>)
         \o Filter(Tail(rows), email)

\* what the driver returns for a skills column (type JSON): SQL NULL as null,
\* a JSON text as that text or, when the driver parses JSON columns, as its
\* value; a text that is no JSON stays a text (the column is then a text one)
ColumnValue(col) ==
    IF col.t = "string" /\ driverParsesJson
    THEN ParsedOr(JSONparse(col.s), col)
    ELSE col

Fetched(row) ==
    [c \in DOMAIN row |-> IF c \in {"skills_known", "skills_to_learn"} THEN ColumnValue(row[c]) ELSE row[c]]

RECURSIVE FetchAll(_)
FetchAll(rows) ==
    IF rows = <<>> THEN <<>> ELSE <<Fetched(Head(rows))>> \o FetchAll(Tail(rows))

Done(tbl, rows) == [err |-> NoErr, rows |-> rows, tbl |-> tbl]
Raise(tbl, err) == [err |-> err, rows |-> <<>>, tbl |-> tbl]

\* INSERT INTO users: id is the PRIMARY KEY, email is UNIQUE (createTable)
InsertUser(tbl, p) ==
    IF tbl[p[1]] # NoRow
    THEN Raise(tbl, Err("ER_DUP_ENTRY",
                        <<"Duplicate entry '", p[1], "' for key 'users.PRIMARY'">>))
    ELSE IF Filter(RowsOf(tbl, IdSeq), p[3]) # <<>>
    THEN Raise(tbl, Err("ER_DUP_ENTRY",
                        <<"Duplicate entry '", p[3], "' for key 'users.email'">>))
    ELSE Done([tbl EXCEPT ![p[1]] =
                 [id |-> p[1], name |-> p[2], email |-> p[3], password |-> p[4],
                  avatar |-> SqlNull, bio |-> p[5], skills_known |-> p[6],
                  skills_to_learn |-> p[7], discord_link |-> p[8], rating |-> p[9]]],
              <<>>)

\* the SET list of an UPDATE: "col = ", "?" pairs separated by ", " and closed
\* by " WHERE id = ", "?".  Returns the columns, or <<>> on a syntax error.
Columns == {"name = ", "bio = ", "skills_known = ", "skills_to_learn = ",
            "discord_link = ", "password = "}

RECURSIVE ParseSet(_, _)
ParseSet(toks, cols) ==
    IF Len(toks) < 3 \/ toks[1] \notin Columns \/ toks[2] # "?" THEN <<>>
    ELSE IF toks[3] = ", " THEN ParseSet(SubSeq(toks, 4, Len(toks)), Append(cols, toks[1]))
    ELSE IF SubSeq(toks, 3, Len(toks)) = <<" WHERE id = ", "?">> THEN Append(cols, toks[1])
    ELSE <<>>

RECURSIVE Assign(_, _, _)
Assign(row, cols, p) ==
    IF cols = <<>> THEN row
    ELSE LET v == Head(p)
             c == Head(cols)
             r == CASE c = "name = "            -> [row EXCEPT !.name = v]
                    [] c = "bio = "             -> [row EXCEPT !.bio = v]
                    [] c = "skills_known = "    -> [row EXCEPT !.skills_known = v]
                    [] c = "skills_to_learn = " -> [row EXCEPT !.skills_to_learn = v]
                    [] c = "discord_link = "    -> [row EXCEPT !.discord_link = v]
                    [] c = "password = "        -> [row EXCEPT !.password = v]
         IN  Assign(r, Tail(cols), Tail(p))

UpdateUser(tbl, sql, p) ==
    LET cols == ParseSet(Tail(sql), <<>>)
        id   == p[Len(p)]
    IN  IF cols = <<>>
        THEN Raise(tbl, Err("ER_PARSE_ERROR",
                            <<"You have an error in your SQL syntax; check the manual that corresponds to your MySQL server version for the right syntax to use near '",
                              "WHERE id = ?", "' at line 1">>))
        ELSE IF tbl[id] = NoRow THEN Done(tbl, <<>>)
        ELSE Done([tbl EXCEPT ![id] = Assign(tbl[id], cols, p)], <<>>)

\* the stored rows a SELECT matches
Select(tbl, sql, p) ==
    CASE sql = SqlSelectAll     -> RowsOf(tbl, IdSeq)
      [] sql = SqlSelectById    -> IF tbl[p[1]] = NoRow THEN <<>> ELSE <<tbl[p[1]]>>
      [] sql = SqlSelectByEmail -> Filter(RowsOf(tbl, IdSeq), p[1])

(***************************************************************************)
(* The exchange_requests and messages tables.  For their statements the    *)
(* database handed to query() is [users, rows]: the users table the        *)
(* foreign keys refer to and the rows of the table addressed.              *)
(***************************************************************************)
RequestIdSeq == <<"r1", "r2">>
RequestIds   == {RequestIdSeq[k] : k \in 1..Len(RequestIdSeq)}
MessageIdSeq == <<"m1", "m2">>
MessageIds   == {MessageIdSeq[k] : k \in 1..Len(MessageIdSeq)}
NoRequests   == [i \in RequestIds |-> NoRow]
NoMessages   == [i \in MessageIds |-> NoRow]

Database(usersTbl, rows) == [users |-> usersTbl, rows |-> rows]

\* status ENUM('pending', 'accepted', 'declined', 'completed') DEFAULT 'pending'
StatusEnum    == {"pending", "accepted", "declined", "completed"}
StatusDefault == "pending"

SqlInsertRequest ==
    <<"INSERT INTO exchange_requests (id, requester_id, target_id, skill_to_teach, skill_to_learn, message) VALUES (",
      "?", ", ", "?", ", ", "?", ", ", "?", ", ", "?", ", ", "?", ")">>
SqlSelectRequest == <<"SELECT * FROM exchange_requests WHERE id = ", "?">>
SqlSetStatus     == <<"UPDATE exchange_requests SET status = ", "?", " WHERE id = ", "?">>

\* the statements of the message routes; an identifier that is not quoted is
\* a fragment of its own
SqlInsertMessage ==
    <<"INSERT INTO messages (id, sender_id, receiver_id, content, timestamp) VALUES (",
      "?", ", ", "?", ", ", "?", ", ", "?", ", ", "?", ")">>
SqlSelectMessage == <<"SELECT * FROM messages WHERE id = ", "?">>
SqlUnreadCount   ==
    <<"SELECT COUNT(*) as unreadCount FROM messages WHERE receiver_id = ", "?",
      " AND ", "read", " = FALSE">>
SqlMarkAsRead    ==
    <<"UPDATE messages SET ", "read", " = TRUE WHERE receiver_id = ", "?",
      " AND sender_id = ", "?", " AND ", "read", " = FALSE">>

\* READ is a reserved word of MySQL: it names a column only inside backticks,
\* as createTable('messages') writes it
ReservedWords == {"read"}
HasReservedWord(sql) == \E k \in 1..Len(sql) : sql[k] \in ReservedWords

\* the statement with the column name inside backticks
QuotedRead == "<backtick>read<backtick>"
RECURSIVE Backticked(_)
Backticked(sql) ==
    IF sql = <<>> THEN <<>>
    ELSE <<IF Head(sql) = "read" THEN QuotedRead ELSE Head(sql)>>
         \o Backticked(Tail(sql))

\* FOREIGN KEY (...) REFERENCES users(id)
UserStored(db, id) == id \in IDs /\ db.users[id] # NoRow

ForeignKeyFails(db, tableName) ==
    Raise(db, Err("ER_NO_REFERENCED_ROW_2",
                  <<"Cannot add or update a child row: a foreign key constraint fails (",
                    tableName, ")">>))

DuplicateKey(db, id, key) ==
    Raise(db, Err("ER_DUP_ENTRY", <<"Duplicate entry '", id, "' for key '", key, "'">>))

\* INSERT INTO exchange_requests: status takes the column default
InsertRequest(db, p) ==
    IF db.rows[p[1]] # NoRow THEN DuplicateKey(db, p[1], "exchange_requests.PRIMARY")
    ELSE IF ~UserStored(db, p[2]) \/ ~UserStored(db, p[3])
    THEN ForeignKeyFails(db, "exchange_requests")
    ELSE Done([db EXCEPT !.rows[p[1]] =
                 [id |-> p[1], requester_id |-> p[2], target_id |-> p[3],
                  skill_to_teach |-> p[4], skill_to_learn |-> p[5],
                  message |-> p[6], status |-> StatusDefault]],
              <<>>)

\* UPDATE exchange_requests SET status = ? WHERE id = ?: a value that is no
\* member of the ENUM is refused (strict SQL mode, the server's default)
SetStatus(db, p) ==
    IF p[2] \notin RequestIds \/ db.rows[p[2]] = NoRow THEN Done(db, <<>>)
    ELSE IF p[1] \notin StatusEnum
    THEN Raise(db, Err("WARN_DATA_TRUNCATED",
                       <<"Data truncated for column 'status' at row 1">>))
    ELSE Done([db EXCEPT !.rows[p[2]].status = p[1]], <<>>)

\* SELECT * FROM <table> WHERE id = ?
SelectRow(db, ids, id) ==
    Done(db, IF id \in ids /\ db.rows[id] # NoRow THEN <<db.rows[id]>> ELSE <<>>)

\* INSERT INTO messages: `read` BOOLEAN DEFAULT FALSE
InsertMessage(db, p) ==
    IF db.rows[p[1]] # NoRow THEN DuplicateKey(db, p[1], "messages.PRIMARY")
    ELSE IF ~UserStored(db, p[2]) \/ ~UserStored(db, p[3])
    THEN ForeignKeyFails(db, "messages")
    ELSE Done([db EXCEPT !.rows[p[1]] =
                 [id |-> p[1], sender_id |-> p[2], receiver_id |-> p[3],
                  content |-> p[4], timestamp |-> p[5], read |-> FALSE]],
              <<>>)

\* WHERE receiver_id = ? [AND sender_id = ?] AND `read` = FALSE
Unread(db, receiver, senders) ==
    {i \in MessageIds : /\ db.rows[i] # NoRow
                        /\ db.rows[i].receiver_id = receiver
                        /\ db.rows[i].sender_id \in senders
                        /\ ~db.rows[i].read}

AllSenders(db) == {db.rows[i].sender_id : i \in {j \in MessageIds : db.rows[j] # NoRow}}

\* SELECT COUNT(*) as unreadCount ...
CountUnread(db, p) ==
    Done(db, <<[unreadCount |-> Cardinality(Unread(db, p[1], AllSenders(db)))]>>)

\* UPDATE messages SET `read` = TRUE ...
MarkRead(db, p) ==
    Done([db EXCEPT !.rows = [i \in MessageIds |->
                                 IF i \in Unread(db, p[1], {p[2]})
                                 THEN [db.rows[i] EXCEPT !.read = TRUE]
                                 ELSE db.rows[i]]],
         <<>>)

\* the statements on exchange_requests and messages
ExecuteOther(db, sql, p) ==
    CASE sql = SqlInsertRequest -> InsertRequest(db, p)
      [] sql = SqlSelectRequest -> SelectRow(db, RequestIds, p[1])
      [] sql = SqlSetStatus     -> SetStatus(db, p)
      [] sql = SqlInsertMessage -> InsertMessage(db, p)
      [] sql = SqlSelectMessage -> SelectRow(db, MessageIds, p[1])
      [] sql = Backticked(SqlUnreadCount) -> CountUnread(db, p)
      [] sql = Backticked(SqlMarkAsRead)  -> MarkRead(db, p)
      [] OTHER -> Raise(db, Err("ER_PARSE_ERROR", <<"You have an error in your SQL syntax">>))

\* connection.execute(sql, params)
Execute(tbl, sql, p) ==
    CASE HasReservedWord(sql) ->
            Raise(tbl, Err("ER_PARSE_ERROR",
                           <<"You have an error in your SQL syntax; check the manual that corresponds to your MySQL server version for the right syntax to use near '",
                             "read", "' at line 1">>))
      [] Head(sql) = "SELECT * FROM users" \/ Head(sql) = "SELECT * FROM users WHERE id = "
           \/ Head(sql) = "SELECT * FROM users WHERE email = " ->
            Done(tbl, FetchAll(Select(tbl, sql, p)))
      [] sql = SqlInsertUser    -> InsertUser(tbl, p)
      [] Head(sql) = "UPDATE users SET " -> UpdateUser(tbl, sql, p)
      [] OTHER -> ExecuteOther(tbl, sql, p)

\* variant: the statement is executed whatever the connection flag says
queryUnguarded(connected, tbl, sql, p) ==
    IF CountMarks(sql) # Len(p)
    THEN Raise(tbl, Err("", <<"Parameter count mismatch">>))
    ELSE Execute(tbl, sql, p)

\* server.js query(): the dbConnected guard, the placeholder count, then execute
query(connected, tbl, sql, p) ==
    IF ~connected
    THEN Raise(tbl, Err("", <<"Database connection unavailable">>))
    ELSE IF CountMarks(sql) # Len(p)
    THEN Raise(tbl, Err("", <<"Parameter count mismatch">>))
    ELSE Execute(tbl, sql, p)

(***************************************************************************)
(* server.js: the handlers.  A handler takes the request and the table and *)
(* returns the table it leaves, the response and the error it caught.      *)
(***************************************************************************)
DefaultRating == 5

mapUserRow(row) ==
    [id |-> row.id, name |-> row.name, email |-> row.email,
     password |-> row.password, avatar |-> row.avatar,
     skillsKnown |-> safeParseJSON(row.skills_known, JArr(<<>>)),
     skillsToLearn |-> safeParseJSON(row.skills_to_learn, JArr(<<>>)),
     bio |-> OrEmpty(row.bio),
     discordLink |-> IF row.discord_link \in {SqlNull, ""} THEN Undef ELSE row.discord_link,
     rating |-> row.rating]

RECURSIVE MapRows(_)
MapRows(rows) ==
    IF rows = <<>> THEN <<>> ELSE <<mapUserRow(Head(rows))>> \o MapRows(Tail(rows))

\* what a handler returns
Reply(tbl, status, body, err) == [tbl |-> tbl, status |-> status, body |-> body, err |-> err]
ErrorBody(text)  == [error |-> text]
UserBody(row)    == [user |-> mapUserRow(row)]

\* GET /api/users, after the SELECT
UsersSelected(tbl, q) ==
    IF q.err # NoErr
    THEN Reply(tbl, 500, ErrorBody("Failed to fetch users"), q.err)
    ELSE Reply(tbl, 200, [users |-> MapRows(q.rows)], NoErr)

\* GET /api/users
GetUsers(connected, tbl) ==
    UsersSelected(tbl, query(connected, tbl, SqlSelectAll, <<>>))

\* GET /api/users/:id, after the SELECT
UserSelected(tbl, q) ==
    IF q.err # NoErr
    THEN Reply(tbl, 500, ErrorBody("Failed to fetch user"), q.err)
    ELSE IF Len(q.rows) = 0
    THEN Reply(tbl, 404, ErrorBody("User not found"), NoErr)
    ELSE Reply(tbl, 200, UserBody(q.rows[1]), NoErr)

\* GET /api/users/:id
GetUser(connected, tbl, id) ==
    UserSelected(tbl, query(connected, tbl, SqlSelectById, <<id>>))

\* the catch block of PUT /api/users/:id
PutCatch(tbl, err) ==
    IF MessageIncludesSkill(err.message)
    THEN Reply(tbl, 400, ErrorBody("Invalid skills format"), err)
    ELSE Reply(tbl, 500, ErrorBody("Failed to update user"), err)

\* the catch block of POST /api/users
PostCatch(tbl, err) ==
    IF MessageIncludesSkill(err.message)
    THEN Reply(tbl, 400, ErrorBody("Invalid skills format"), err)
    ELSE IF err.code = "ER_DUP_ENTRY"
    THEN Reply(tbl, 409, ErrorBody("User already exists"), err)
    ELSE Reply(tbl, 500, ErrorBody("Failed to create user"), err)

\* skills ? validateSkillsArray(skills) : []
ValidateIfGiven(skills) ==
    IF Falsy(skills) THEN Valid(JArr(<<>>)) ELSE validateSkillsArray(skills)

\* the fragments and the values of the UPDATE that PUT assembles
UpdateFields(body) ==
    <<<<"name = ", "?">>, <<"bio = ", "?">>, <<"skills_known = ", "?">>,
      <<"skills_to_learn = ", "?">>, <<"discord_link = ", "?">>>>
    \o (IF body.password # Undef THEN <<<<"password = ", "?">>>> ELSE <<>>)
    \o <<<<"WHERE id = ", "?">>>>

\* `UPDATE users SET ${updateFields.join(', ')}`
UpdateSql(body) ==
    <<"UPDATE users SET ">> \o Join(UpdateFields(body), ", ")

UpdateValues(id, body, existingUser, known, learn) ==
    <<IF body.name # Undef THEN body.name ELSE existingUser.name,
      IF body.bio # Undef THEN body.bio ELSE existingUser.bio,
      JStr(JSONstringify(known)),
      JStr(JSONstringify(learn)),
      IF body.discordLink # Undef THEN body.discordLink ELSE existingUser.discord_link>>
    \o (IF body.password # Undef THEN <<body.password>> ELSE <<>>)
    \o <<id>>

\* PUT /api/users/:id, after the re-select
PutReselected(tbl, q) ==
    IF q.err # NoErr THEN PutCatch(tbl, q.err)
    ELSE IF Len(q.rows) = 0
    THEN Reply(tbl, 500, ErrorBody("User update failed - user not found after update"), NoErr)
    ELSE Reply(tbl, 200, UserBody(q.rows[1]), NoErr)

\* the re-select that ends PUT /api/users/:id
PutReselect(connected, tbl, id) ==
    PutReselected(tbl, query(connected, tbl, SqlSelectById, <<id>>))

\* PUT /api/users/:id, after its INSERT or UPDATE
PutWritten(connected, tbl, id, q) ==
    IF q.err # NoErr THEN PutCatch(tbl, q.err)
    ELSE PutReselect(connected, q.tbl, id)

\* PUT /api/users/:id, the insert branch after the skills are validated
PutInsertValidated(connected, tbl, id, body, known, learn) ==
    IF ~known.ok THEN PutCatch(tbl, Err("", <<known.message>>))
    ELSE IF ~learn.ok THEN PutCatch(tbl, Err("", <<learn.message>>))
    ELSE PutWritten(connected, tbl, id,
                    query(connected, tbl, SqlInsertUser,
                          <<id, OrEmpty(body.name), OrEmpty(body.email),
                            OrEmpty(body.password), OrEmpty(body.bio),
                            JStr(JSONstringify(known.v)), JStr(JSONstringify(learn.v)),
                            OrEmpty(body.discordLink), DefaultRating>>))

\* PUT /api/users/:id, the branch for an id with no row
PutInsert(connected, tbl, id, body) ==
    PutInsertValidated(connected, tbl, id, body,
                       ValidateIfGiven(body.skillsKnown),
                       ValidateIfGiven(body.skillsToLearn))

\* variant: the row is overwritten with the body, '' for what it leaves out
PutUpdateOverwrites(connected, tbl, id, body, existingUser) ==
    PutReselect(connected,
                [tbl EXCEPT ![id].name = OrEmpty(body.name),
                            ![id].bio = OrEmpty(body.bio),
                            ![id].discord_link = OrEmpty(body.discordLink)],
                id)

\* PUT /api/users/:id, the update branch after the skills are settled
PutUpdateValidated(connected, tbl, id, body, existingUser, known, learn) ==
    IF ~known.ok THEN PutCatch(tbl, Err("", <<known.message>>))
    ELSE IF ~learn.ok THEN PutCatch(tbl, Err("", <<learn.message>>))
    ELSE PutWritten(connected, tbl, id,
                    query(connected, tbl, UpdateSql(body),
                          UpdateValues(id, body, existingUser, known.v, learn.v)))

\* finalSkills: the validated value of the body, or the stored one
FinalSkills(given, stored) ==
    IF given.t # "undefined"
    THEN validateSkillsArray(given)
    ELSE Valid(safeParseJSON(stored, JArr(<<>>)))

\* PUT /api/users/:id, the branch for an existing row
PutUpdate(connected, tbl, id, body, existingUser) ==
    PutUpdateValidated(connected, tbl, id, body, existingUser,
                       FinalSkills(body.skillsKnown, existingUser.skills_known),
                       FinalSkills(body.skillsToLearn, existingUser.skills_to_learn))

\* PUT /api/users/:id, after the first SELECT
PutSelected(connected, tbl, id, body, q) ==
    IF q.err # NoErr THEN PutCatch(tbl, q.err)
    ELSE IF Len(q.rows) = 0 THEN PutInsert(connected, tbl, id, body)
    ELSE PutUpdate(connected, tbl, id, body, q.rows[1])

\* PUT /api/users/:id
PutUser(connected, tbl, id, body) ==
    PutSelected(connected, tbl, id, body, query(connected, tbl, SqlSelectById, <<id>>))

\* POST /api/users, after the SELECT of the new row
PostSelected(tbl, r) ==
    IF r.err # NoErr THEN PostCatch(tbl, r.err)
    ELSE Reply(tbl, 201, UserBody(r.rows[1]), NoErr)

\* POST /api/users, after the INSERT
PostInserted(connected, tbl, body, q) ==
    IF q.err # NoErr THEN PostCatch(tbl, q.err)
    ELSE PostSelected(q.tbl, query(connected, q.tbl, SqlSelectById, <<body.id>>))

\* POST /api/users, after the skills are validated
PostValidated(connected, tbl, body, known, learn) ==
    IF ~known.ok THEN PostCatch(tbl, Err("", <<known.message>>))
    ELSE IF ~learn.ok THEN PostCatch(tbl, Err("", <<learn.message>>))
    ELSE PostInserted(connected, tbl, body,
                      query(connected, tbl, SqlInsertUser,
                            <<body.id, body.name, body.email,
                              OrEmpty(body.password), OrEmpty(body.bio),
                              JStr(JSONstringify(known.v)), JStr(JSONstringify(learn.v)),
                              OrEmpty(body.discordLink), DefaultRating>>))

\* POST /api/users
PostUsers(connected, tbl, body) ==
    IF OrEmpty(body.id) = "" \/ OrEmpty(body.name) = "" \/ OrEmpty(body.email) = ""
    THEN Reply(tbl, 400, ErrorBody("ID, name, and email are required"), NoErr)
    ELSE PostValidated(connected, tbl, body,
                       ValidateIfGiven(body.skillsKnown),
                       ValidateIfGiven(body.skillsToLearn))

\* variant of LoginSelected: the stored password is not compared
LoginSelectedAnyPassword(tbl, body, q) ==
    IF q.err # NoErr
    THEN Reply(tbl, 500, ErrorBody("Login failed"), q.err)
    ELSE IF Len(q.rows) = 0
    THEN Reply(tbl, 401, ErrorBody("Invalid email or password"), NoErr)
    ELSE Reply(tbl, 200,
               [user |-> mapUserRow(q.rows[1]),
                token |-> <<"token-", q.rows[1].id>>], NoErr)

\* POST /api/login, after the SELECT
LoginSelected(tbl, body, q) ==
    IF q.err # NoErr
    THEN Reply(tbl, 500, ErrorBody("Login failed"), q.err)
    ELSE IF Len(q.rows) = 0
    THEN Reply(tbl, 401, ErrorBody("Invalid email or password"), NoErr)
    ELSE IF q.rows[1].password # body.password
    THEN Reply(tbl, 401, ErrorBody("Invalid email or password"), NoErr)
    ELSE Reply(tbl, 200,
               [user |-> mapUserRow(q.rows[1]),
                token |-> <<"token-", q.rows[1].id>>], NoErr)

\* POST /api/login
Login(connected, tbl, body) ==
    IF OrEmpty(body.email) = "" \/ OrEmpty(body.password) = ""
    THEN Reply(tbl, 400, ErrorBody("Email and password are required"), NoErr)
    ELSE LoginSelected(tbl, body,
                       query(connected, tbl, SqlSelectByEmail, <<body.email>>))

requiredTables == {"users", "exchange_requests", "exchange_feedback", "messages",
                   "quizzes", "quiz_attempts"}

\* GET /api/db-status: every probe that throws marks its table false
DbStatus(connected, tbl) ==
    Reply(tbl, 200,
          [connected |-> connected,
           tables |-> [t \in requiredTables |->
                         query(connected, tbl, SqlProbe, <<t>>).err = NoErr]],
          NoErr)

(***************************************************************************)
(* server.js: the connection check and the server's life                   *)
(***************************************************************************)
maxDbRetries == 5

\* variant: the retry is scheduled while the count has not passed the limit
CheckResultRetryAtLimit(attempts, ok) ==
    [connected |-> ok, attempts |-> attempts + 1,
     retry |-> ~ok /\ attempts + 1 <= maxDbRetries]

\* checkDatabaseConnection(): ok is the answer of getConnection/ping/SELECT 1.
\* Returns the new dbConnected, dbConnectionAttempts and whether a retry is set.
CheckResult(attempts, ok) ==
    [connected |-> ok,
     attempts  |-> attempts + 1,
     retry     |-> ~ok /\ attempts + 1 < maxDbRetries]

(***************************************************************************)
(* The requests the model sends                                            *)
(***************************************************************************)
SkillJs == JObj(<< <<Chars_name, JStr(<<" ", "j", "s">>)>>,
                   <<Chars_verified, JBool(TRUE)>>,
                   <<Chars_experienceYears, JNum(12)>> >>)
SkillGo == JObj(<< <<Chars_name, JStr(<<"g", "\"", "o">>)>>,
                   <<Chars_level, JStr(<<"p", "r", "o">>)>>,
                   <<Chars_availability, JArr(<<JStr(<<"m", "o", "n">>)>>)>> >>)

Optional(password, bio, discordLink, skillsKnown, skillsToLearn) ==
    [password |-> password, bio |-> bio, discordLink |-> discordLink,
     skillsKnown |-> skillsKnown, skillsToLearn |-> skillsToLearn]

\* the optional fields of a user body: none, some, all, and the malformed skills
Profiles ==
    { Optional(Undef, Undef, Undef, JUndef, JUndef),
      Optional("p2", "b1", "d1", JArr(<<SkillJs>>), JArr(<<SkillGo>>)),
      Optional(Undef, Undef, Undef, JStr(<<>>), JUndef),
      Optional(Undef, Undef, Undef, JStr(<<"j", "s">>), JUndef),
      Optional(Undef, Undef, Undef, JArr(<<JNum(5)>>), JUndef),
      Optional(Undef, Undef, Undef, JArr(<<SkillJs, JObj(<<>>)>>), JUndef),
      Optional("p1", Undef, Undef, JUndef,
               JArr(<<JObj(<< <<Chars_name, JNum(7)>> >>)>>)) }

\* no optional field, and every optional field
FewProfiles ==
    { Optional(Undef, Undef, Undef, JUndef, JUndef),
      Optional("p2", "b1", "d1", JArr(<<SkillJs>>), JArr(<<SkillGo>>)) }

Body(id, name, email, o) ==
    [id |-> id, name |-> name, email |-> email, password |-> o.password,
     bio |-> o.bio, skillsKnown |-> o.skillsKnown,
     skillsToLearn |-> o.skillsToLearn, discordLink |-> o.discordLink]

Emails == {"e1@x.io", "skills@e2.io"}

Plain == Optional("p1", Undef, Undef, JUndef, JUndef)

PostBodies ==
    {Body(id, "n1", email, o) : id \in IDs, email \in Emails, o \in FewProfiles}
    \cup {Body("u2", "n1", "e1@x.io", o) : o \in Profiles}
    \cup {Body(Undef, "n1", "e1@x.io", Plain), Body("", "n1", "e1@x.io", Plain),
          Body("u2", Undef, "e1@x.io", Plain), Body("u2", "", "e1@x.io", Plain),
          Body("u2", "n1", Undef, Plain), Body("u2", "n1", "", Plain)}

PutBodies ==
    {Body(Undef, Undef, Undef, o) : o \in Profiles}
    \cup {Body(Undef, "n1", "e1@x.io", o) : o \in FewProfiles}
    \cup {Body(Undef, Undef, "skills@e2.io", o) : o \in FewProfiles}

LoginBodies ==
    {Body(Undef, Undef, email, Optional(password, Undef, Undef, JUndef, JUndef)) :
        email \in Emails \cup {Undef}, password \in {Undef, "p1", "p2"}}
    \cup {Body(Undef, Undef, "", Optional("p1", Undef, Undef, JUndef, JUndef)),
          Body(Undef, Undef, "e1@x.io", Optional("", Undef, Undef, JUndef, JUndef))}

\* a database left by an earlier run of the server
SeedRow ==
    [id |-> "u1", name |-> "n0", email |-> "skills@e2.io", password |-> "p1",
     avatar |-> SqlNull, bio |-> "b0",
     skills_known |-> JStr(JSONstringify(validateSkillsArray(JArr(<<SkillGo>>)).v)),
     skills_to_learn |-> JNull, discord_link |-> "d0", rating |-> DefaultRating]

InitialTables == {EmptyTable, [EmptyTable EXCEPT !["u1"] = SeedRow]}

(***************************************************************************)
(* server.js as a state machine                                            *)
(***************************************************************************)
\* the request log: the route, its :id and the status sent
Handled(op, id, r) == [op |-> op, id |-> id, status |-> r.status]

ServerInit ==
    /\ phase = "start"
    /\ dbConnected = FALSE
    /\ dbConnectionAttempts = 0
    /\ retryTimer = FALSE
    /\ users \in InitialTables
    /\ last = [op |-> "none", id |-> Undef, status |-> 0]

\* one run of checkDatabaseConnection
Check(ok) ==
    LET r == CheckResult(dbConnectionAttempts, ok)
    IN  /\ dbConnected' = r.connected
        /\ dbConnectionAttempts' = r.attempts
        /\ retryTimer' = r.retry

\* initializeServer: await the first check, then listen
InitializeServer ==
    /\ phase = "start"
    /\ \E ok \in BOOLEAN : Check(ok)
    /\ phase' = "listening"
    /\ UNCHANGED <<users, last, prodVars, jsonVars, driverParsesJson, exchVars, msgVars>>

\* the 5 s timer set by a failed check fires
RetryTimerFires ==
    /\ retryTimer
    /\ \E ok \in BOOLEAN : Check(ok)
    /\ UNCHANGED <<phase, users, last, prodVars, jsonVars, driverParsesJson, exchVars, msgVars>>

Serve(op, id, r) ==
    /\ users' = r.tbl
    /\ last' = Handled(op, id, r)
    /\ UNCHANGED <<phase, dbConnected, dbConnectionAttempts, retryTimer>>
    /\ UNCHANGED <<prodVars, jsonVars, driverParsesJson, exchVars, msgVars>>

ReqGetUsers ==
    /\ phase = "listening"
    /\ Serve("GET /api/users", Undef, GetUsers(dbConnected, users))

ReqGetUser ==
    /\ phase = "listening"
    /\ \E id \in IDs :
         Serve("GET /api/users/:id", id, GetUser(dbConnected, users, id))

ReqPutUser ==
    /\ phase = "listening"
    /\ \E id \in IDs, body \in PutBodies :
         Serve("PUT /api/users/:id", id, PutUser(dbConnected, users, id, body))

ReqPostUsers ==
    /\ phase = "listening"
    /\ \E body \in PostBodies :
         Serve("POST /api/users", Undef, PostUsers(dbConnected, users, body))

ReqLogin ==
    /\ phase = "listening"
    /\ \E body \in LoginBodies :
         Serve("POST /api/login", Undef, Login(dbConnected, users, body))

ReqDbStatus ==
    /\ phase = "listening"
    /\ Serve("GET /api/db-status", Undef, DbStatus(dbConnected, users))

Next ==
    \/ InitializeServer
    \/ RetryTimerFires
    \/ ReqGetUsers
    \/ ReqGetUser
    \/ ReqPutUser
    \/ ReqPostUsers
    \/ ReqLogin
    \/ ReqDbStatus

\* the variables of the other programs, while this one runs
ProdIdle ==
    /\ pDbConnected = FALSE /\ pAttempts = 0 /\ pInFlight = 0 /\ pTimers = 0
    /\ pStarted = FALSE /\ pUsers = EmptyTable
    /\ pLast = [op |-> "none", status |-> 0, attempts |-> 0]

NoAnswer == [op |-> "none", status |-> 0, known |-> JUndef, learn |-> JUndef]

JsonIdle ==
    /\ jIn = [how |-> "none", known |-> JUndef, learn |-> JUndef]
    /\ jUsers = EmptyTable
    /\ jOut = NoAnswer

ExchIdle ==
    /\ exchange_requests = NoRequests
    /\ xLast = [op |-> "none", id |-> Undef, status |-> 0]

MsgIdle ==
    /\ messages = NoMessages
    /\ mLast = [op |-> "none", status |-> 0, unreadCount |-> 0]

Init ==
    /\ ServerInit
    /\ ProdIdle
    /\ JsonIdle
    /\ ExchIdle
    /\ MsgIdle
    /\ driverParsesJson \in BOOLEAN

Spec == Init /\ [][Next]_vars

(***************************************************************************)
(* Properties of server.js.  A property about a handler is stated over     *)
(* every request of the model in every reachable state: the handler is a   *)
(* function of the request, the table and dbConnected.                     *)
(***************************************************************************)
Listening == phase = "listening"
Rows(tbl) == {tbl[i] : i \in IDs} \ {NoRow}

\* C1: the connection check runs at most maxDbRetries times: the attempt
\* counter never exceeds 5, and a retry timer is pending only after a failed
\* check that left the counter below 5 (none after a success or the 5th failure).
C1_AttemptsBounded ==
    /\ dbConnectionAttempts <= maxDbRetries
    /\ retryTimer => (~dbConnected /\ dbConnectionAttempts < maxDbRetries)

\* the 5th check has failed and nothing more is scheduled
C1_Witness ==
    dbConnectionAttempts = maxDbRetries /\ ~dbConnected /\ ~retryTimer /\ Listening

LoginMissing(body) == OrEmpty(body.email) = "" \/ OrEmpty(body.password) = ""
LoginMatch(tbl, body) ==
    \E row \in Rows(tbl) : row.email = body.email /\ row.password = body.password
NoToken(r) == "token" \notin DOMAIN r.body

StatementsSent ==
    {<<SqlSelectAll, <<>>>>, <<SqlProbe, <<"users">>>>}
    \cup {<<SqlSelectById, <<id>>>> : id \in IDs}
    \cup {<<SqlSelectByEmail, <<e>>>> : e \in Emails}
    \cup {<<SqlInsertUser, <<id, "n1", e, "", "", JStr(<<"[", "]">>), JStr(<<"[", "]">>),
                             "", DefaultRating>>>> : id \in IDs, e \in Emails}

Unavailable == Err("", <<"Database connection unavailable">>)

\* the replies of every handler that reads or writes the users table
CrudReplies ==
    {GetUsers(dbConnected, users)}
    \cup {GetUser(dbConnected, users, id) : id \in IDs}
    \cup {PutUser(dbConnected, users, id, body) : id \in IDs, body \in PutBodies}
    \cup {PostUsers(dbConnected, users, body) : body \in PostBodies}
    \cup {Login(dbConnected, users, body) : body \in LoginBodies}

QueriesThrow ==
    \A st \in StatementsSent :
        query(dbConnected, users, st[1], st[2]) = Raise(users, Unavailable)

SkillsGivenValid(v) == v.t = "undefined" \/ validateSkillsArray(v).ok

\* the column text the handler writes for a skills field of the body
SkillsText(v) ==
    JStr(JSONstringify(IF Falsy(v) THEN JArr(<<>>) ELSE validateSkillsArray(v).v))

\* C6 as stated: PUT /api/users/:id for an existing user with valid fields
\* executes its UPDATE, the row takes every provided value and the response
\* is 200 with the re-selected row.
C6_AsStated ==
    (Listening /\ dbConnected) =>
      \A id \in IDs, body \in PutBodies :
        (/\ users[id] # NoRow
         /\ SkillsGivenValid(body.skillsKnown) /\ SkillsGivenValid(body.skillsToLearn)) =>
          LET r == PutUser(dbConnected, users, id, body)
              row == r.tbl[id]
          IN  /\ r.status = 200
              /\ body.name # Undef => row.name = body.name
              /\ body.bio # Undef => row.bio = body.bio
              /\ body.discordLink # Undef => row.discord_link = body.discordLink
              /\ body.password # Undef => row.password = body.password
              /\ body.skillsKnown.t # "undefined" =>
                    row.skills_known = SkillsText(body.skillsKnown)
              /\ body.skillsToLearn.t # "undefined" =>
                    row.skills_to_learn = SkillsText(body.skillsToLearn)
              /\ r.body = UserBody(Fetched(row))

\* C7: PUT /api/users/:id for an existing user keeps the stored value of
\* every field among name, bio, skills_known, skills_to_learn, discord_link
\* and password that the body leaves undefined, and never changes the
\* user's id, email or rating.
C7_Frame ==
    Listening =>
      \A id \in IDs, body \in PutBodies :
        users[id] # NoRow =>
          LET old == users[id]
              new == PutUser(dbConnected, users, id, body).tbl[id]
          IN  /\ new # NoRow
              /\ body.name = Undef => new.name = old.name
              /\ body.bio = Undef => new.bio = old.bio
              /\ body.skillsKnown.t = "undefined" => new.skills_known = old.skills_known
              /\ body.skillsToLearn.t = "undefined" =>
                    new.skills_to_learn = old.skills_to_learn
              /\ body.discordLink = Undef => new.discord_link = old.discord_link
              /\ body.password = Undef => new.password = old.password
              /\ new.id = old.id /\ new.email = old.email /\ new.rating = old.rating

\* a PUT for a stored user has been handled, and the row still holds a bio,
\* a discord link and a password
C7_Witness ==
    /\ last.op = "PUT /api/users/:id" /\ last.status \in {400, 500} /\ dbConnected
    /\ users[last.id] # NoRow
    /\ users[last.id].bio # "" /\ users[last.id].discord_link # ""
    /\ users[last.id].password # ""

\* an array of objects that each carry a non-empty string name
WellFormedSkills(v) ==
    /\ v.t = "array"
    /\ \A k \in 1..Len(v.a) :
          /\ v.a[k].t = "object"
          /\ Get(v.a[k], Chars_name).t = "string"
          /\ Get(v.a[k], Chars_name).s # <<>>

\* the row the spec expects PUT /api/users/:id to create
CreatedRow(id, body) ==
    [id |-> id, name |-> OrEmpty(body.name), email |-> OrEmpty(body.email),
     password |-> OrEmpty(body.password), avatar |-> SqlNull,
     bio |-> OrEmpty(body.bio),
     skills_known |-> SkillsText(body.skillsKnown),
     skills_to_learn |-> SkillsText(body.skillsToLearn),
     discord_link |-> OrEmpty(body.discordLink), rating |-> DefaultRating]

\* C8: after any sequence of requests, PUT /api/users/:id for an id that is
\* not stored creates the user with rating 5.0 and '' or an empty skill array
\* for every omitted field, and responds 200 with that user.  Stated for the
\* requests the server can serve at all: the connection is up, each given
\* skills value is falsy or well formed, and the body names no stored email.
C8_PutCreatesAlways ==
    (Listening /\ dbConnected) =>
      \A id \in IDs, body \in PutBodies :
        (/\ users[id] = NoRow
         /\ Falsy(body.skillsKnown) \/ WellFormedSkills(body.skillsKnown)
         /\ Falsy(body.skillsToLearn) \/ WellFormedSkills(body.skillsToLearn)
         /\ body.email = Undef \/ \A row \in Rows(users) : row.email # body.email) =>
          LET r == PutUser(dbConnected, users, id, body)
          IN  /\ r.status = 200
              /\ r.tbl = [users EXCEPT ![id] = CreatedRow(id, body)]
              /\ r.body = UserBody(Fetched(CreatedRow(id, body)))

\* the INSERT of the create branch can succeed: the connection is up, each
\* given skills value is falsy or well formed, and no stored row holds the
\* email of the body ('' when omitted)
CanCreate(body) ==
    /\ dbConnected
    /\ Falsy(body.skillsKnown) \/ WellFormedSkills(body.skillsKnown)
    /\ Falsy(body.skillsToLearn) \/ WellFormedSkills(body.skillsToLearn)
    /\ \A row \in Rows(users) : row.email # OrEmpty(body.email)

\* what the create branch does guarantee: the user is created as stated and the
\* response is 200 when the connection is up, the given skills are well formed
\* and the email ('' when omitted) is not stored yet; otherwise the answer is
\* 400 or 500 with an error and nothing is stored
PutCreatesWhenPossible ==
    Listening =>
      \A id \in IDs, body \in PutBodies :
        users[id] = NoRow =>
          LET r == PutUser(dbConnected, users, id, body)
          IN  IF CanCreate(body)
              THEN /\ r.status = 200
                   /\ r.tbl = [users EXCEPT ![id] = CreatedRow(id, body)]
                   /\ r.body = UserBody(Fetched(CreatedRow(id, body)))
              ELSE /\ r.status \in {400, 500}
                   /\ DOMAIN r.body = {"error"}
                   /\ r.tbl = users

\* a PUT has created the second user from a body without bio or password
PutCreatedSecondUser ==
    /\ last.op = "PUT /api/users/:id" /\ last.status = 200 /\ last.id = "u2"
    /\ users["u1"] # NoRow /\ users["u2"] # NoRow
    /\ users["u2"].rating = DefaultRating
    /\ users["u2"].bio = "" /\ users["u2"].password = ""
    /\ users["u2"].skills_known = JStr(<<"[", "]">>)

PostMissing(body) ==
    OrEmpty(body.id) = "" \/ OrEmpty(body.name) = "" \/ OrEmpty(body.email) = ""

\* a skills value was sent and is not an array of objects with a string name
SkillsMalformed(v) ==
    /\ v.t # "undefined"
    /\ ~ /\ v.t = "array"
         /\ \A k \in 1..Len(v.a) :
               v.a[k].t = "object" /\ Get(v.a[k], Chars_name).t = "string"

PostDuplicate(body) ==
    users[body.id] # NoRow \/ \E row \in Rows(users) : row.email = body.email

\* C9: POST /api/users answers 400 when id, name or email is missing, 400
\* when skillsKnown or skillsToLearn is not an array of objects with a string
\* name, 409 when the id or the email is already stored, and leaves the users
\* table unchanged in each of these cases.
C9_PostRejects ==
    (Listening /\ dbConnected) =>
      \A body \in PostBodies :
        LET r == PostUsers(dbConnected, users, body)
            malformed == SkillsMalformed(body.skillsKnown)
                         \/ SkillsMalformed(body.skillsToLearn)
        IN  /\ PostMissing(body) => (r.status = 400 /\ r.tbl = users)
            /\ (~PostMissing(body) /\ malformed) => (r.status = 400 /\ r.tbl = users)
            /\ (~PostMissing(body) /\ ~malformed /\ PostDuplicate(body)) =>
                  (r.status = 409 /\ r.tbl = users)

\* POST /api/users answers 400 to skills that are not an array
C9_FalsySkillsRejected ==
    (Listening /\ dbConnected) =>
      \A body \in PostBodies :
        (~PostMissing(body) /\ body.skillsKnown.t = "string") =>
            PostUsers(dbConnected, users, body).status = 400

\* POST /api/users answers 409 to a stored id or email
C9_DuplicateIs409 ==
    (Listening /\ dbConnected) =>
      \A body \in PostBodies :
        (/\ ~PostMissing(body) /\ PostDuplicate(body)
         /\ Falsy(body.skillsKnown) \/ WellFormedSkills(body.skillsKnown)
         /\ Falsy(body.skillsToLearn) \/ WellFormedSkills(body.skillsToLearn)) =>
            PostUsers(dbConnected, users, body).status = 409

(***************************************************************************)
(* Backend/server-production.js (unnamed/part_001 holds the same login     *)
(* handler).  validateSkillsArray and the catch block of POST /api/users   *)
(* have the text of server.js.                                             *)
(***************************************************************************)
MaxChecks == 6

SqlSetPassword == <<"UPDATE users SET ", "password = ", "?", " WHERE id = ", "?">>

\* query(sql, params): pool.execute with no guard; up is whether the database
\* answers during the request
prod_query(up, tbl, sql, p) ==
    IF ~up THEN Raise(tbl, Err("ECONNREFUSED", <<"connect ECONNREFUSED">>))
    ELSE IF CountMarks(sql) # Len(p)
    THEN Raise(tbl, Err("ER_WRONG_ARGUMENTS",
                        <<"Incorrect arguments to mysqld_stmt_execute">>))
    ELSE Execute(tbl, sql, p)

\* JSON.parse(value): ok is false when it throws
Parsed(r) == [ok |-> r.ok, v |-> r.v]

\* value ? JSON.parse(value) : []
prod_parse(value) ==
    IF Falsy(value) THEN [ok |-> TRUE, v |-> JArr(<<>>)]
    ELSE Parsed(JSONparse(StringOf(value)))

prod_Mapped(row, known, learn) ==
    [ok |-> known.ok /\ learn.ok,
     v  |-> [id |-> row.id, name |-> row.name, email |-> row.email,
             password |-> row.password, avatar |-> row.avatar,
             skillsKnown |-> known.v, skillsToLearn |-> learn.v,
             bio |-> OrEmpty(row.bio),
             discordLink |-> IF row.discord_link \in {SqlNull, ""}
                             THEN Undef ELSE row.discord_link,
             rating |-> row.rating]]

\* mapUserRow: ok is false when a JSON.parse throws
prod_mapUserRow(row) ==
    prod_Mapped(row, prod_parse(row.skills_known), prod_parse(row.skills_to_learn))

SyntaxError == Err("", <<"Unexpected token in JSON">>)

\* POST /api/users, after mapUserRow
prod_PostMapped(tbl, m) ==
    IF ~m.ok THEN PostCatch(tbl, SyntaxError)
    ELSE Reply(tbl, 201, [user |-> m.v], NoErr)

\* POST /api/users, after the SELECT of the new row
prod_PostSelected(tbl, r) ==
    IF r.err # NoErr THEN PostCatch(tbl, r.err)
    ELSE prod_PostMapped(tbl, prod_mapUserRow(r.rows[1]))

\* POST /api/users, after the INSERT
prod_PostInserted(up, tbl, body, q) ==
    IF q.err # NoErr THEN PostCatch(tbl, q.err)
    ELSE prod_PostSelected(q.tbl, prod_query(up, q.tbl, SqlSelectById, <<body.id>>))

\* POST /api/users, after the skills are validated
prod_PostValidated(up, tbl, body, known, learn) ==
    IF ~known.ok THEN PostCatch(tbl, Err("", <<known.message>>))
    ELSE IF ~learn.ok THEN PostCatch(tbl, Err("", <<learn.message>>))
    ELSE prod_PostInserted(up, tbl, body,
                           prod_query(up, tbl, SqlInsertUser,
                                      <<body.id, body.name, body.email,
                                        OrEmpty(body.password), OrEmpty(body.bio),
                                        JStr(JSONstringify(known.v)),
                                        JStr(JSONstringify(learn.v)),
                                        OrEmpty(body.discordLink), DefaultRating>>))

\* POST /api/users
prod_PostUsers(up, tbl, body) ==
    IF OrEmpty(body.id) = "" \/ OrEmpty(body.name) = "" \/ OrEmpty(body.email) = ""
    THEN Reply(tbl, 400, ErrorBody("ID, name, and email are required"), NoErr)
    ELSE prod_PostValidated(up, tbl, body,
                            ValidateIfGiven(body.skillsKnown),
                            ValidateIfGiven(body.skillsToLearn))

\* POST /api/login, after mapUserRow
prod_LoginMapped(tbl, id, m) ==
    IF ~m.ok THEN Reply(tbl, 500, ErrorBody("Login failed"), SyntaxError)
    ELSE Reply(tbl, 200, [user |-> m.v, token |-> <<"simple-token-", id>>], NoErr)

\* POST /api/login, after the UPDATE that stores a first password (w), or
\* with no UPDATE at all
prod_LoginWritten(tbl, user, w) ==
    IF w.err # NoErr
    THEN Reply(tbl, 500, ErrorBody("Login failed"), w.err)
    ELSE prod_LoginMapped(w.tbl, user.id, prod_mapUserRow(user))

\* POST /api/login for a stored user: any password is accepted
prod_LoginFound(up, tbl, body, user) ==
    IF user.password \in {SqlNull, ""}
    THEN prod_LoginWritten(tbl, [user EXCEPT !.password = body.password],
                           prod_query(up, tbl, SqlSetPassword,
                                      <<body.password, user.id>>))
    ELSE prod_LoginWritten(tbl, user, Done(tbl, <<>>))

\* POST /api/login, after the SELECT
prod_LoginSelected(up, tbl, body, q) ==
    IF q.err # NoErr
    THEN Reply(tbl, 500, ErrorBody("Login failed"), q.err)
    ELSE IF Len(q.rows) = 0
    THEN Reply(tbl, 401, ErrorBody("Invalid email or password"), NoErr)
    ELSE prod_LoginFound(up, tbl, body, q.rows[1])

\* POST /api/login
prod_Login(up, tbl, body) ==
    IF OrEmpty(body.email) = "" \/ OrEmpty(body.password) = ""
    THEN Reply(tbl, 400, ErrorBody("Email and password are required"), NoErr)
    ELSE prod_LoginSelected(up, tbl, body,
                            prod_query(up, tbl, SqlSelectByEmail, <<body.email>>))

\* checkDatabaseConnection up to its first await: dbConnectionAttempts++
prod_CheckBegins(attempts) == attempts + 1

\* checkDatabaseConnection after its awaits: ok is the answer of
\* getConnection/ping/SELECT 1, attempts is the counter at that moment
prod_CheckSettles(attempts, ok) ==
    [connected |-> ok, retry |-> ~ok /\ attempts < maxDbRetries]

ProdPostBodies ==
    { Body("u1", "n1", "e1@x.io", Plain),
      Body("u1", "n1", "e1@x.io", Optional(Undef, Undef, Undef, JUndef, JUndef)),
      Body("u2", "n1", "skills@e2.io",
           Optional("p1", "b1", "d1", JArr(<<SkillJs>>), JUndef)),
      Body("u2", Undef, "e1@x.io", Plain) }

BeginCheck ==
    /\ pAttempts' = prod_CheckBegins(pAttempts)
    /\ pInFlight' = pInFlight + 1

\* the call of checkDatabaseConnection() when the module is loaded
ProdInitialCheck ==
    /\ ~pStarted
    /\ pStarted' = TRUE
    /\ BeginCheck
    /\ UNCHANGED <<pDbConnected, pTimers, pUsers, pLast>>
    /\ UNCHANGED <<serverVars, jsonVars, driverParsesJson, exchVars, msgVars>>

\* the 30 s interval calls checkDatabaseConnection()
ProdIntervalTick ==
    /\ pStarted /\ pAttempts < MaxChecks
    /\ BeginCheck
    /\ UNCHANGED <<pDbConnected, pTimers, pStarted, pUsers, pLast>>
    /\ UNCHANGED <<serverVars, jsonVars, driverParsesJson, exchVars, msgVars>>

\* a 5 s retry timer calls checkDatabaseConnection()
ProdRetryTimerFires ==
    /\ pTimers > 0 /\ pAttempts < MaxChecks
    /\ pTimers' = pTimers - 1
    /\ BeginCheck
    /\ UNCHANGED <<pDbConnected, pStarted, pUsers, pLast>>
    /\ UNCHANGED <<serverVars, jsonVars, driverParsesJson, exchVars, msgVars>>

\* the pool answers a check that is waiting
ProdCheckSettles ==
    /\ pInFlight > 0
    /\ pInFlight' = pInFlight - 1
    /\ \E ok \in BOOLEAN :
         LET r == prod_CheckSettles(pAttempts, ok)
         IN  /\ pDbConnected' = r.connected
             /\ pTimers' = IF r.retry THEN pTimers + 1 ELSE pTimers
    /\ UNCHANGED <<pAttempts, pStarted, pUsers, pLast>>
    /\ UNCHANGED <<serverVars, jsonVars, driverParsesJson, exchVars, msgVars>>

\* GET /api/status reports services.database.connectionAttempts
ProdReqStatus ==
    /\ pStarted
    /\ pLast' = [op |-> "GET /api/status", status |-> 200, attempts |-> pAttempts]
    /\ UNCHANGED <<pDbConnected, pAttempts, pInFlight, pTimers, pStarted, pUsers>>
    /\ UNCHANGED <<serverVars, jsonVars, driverParsesJson, exchVars, msgVars>>

ProdServe(op, r) ==
    /\ pUsers' = r.tbl
    /\ pLast' = [op |-> op, status |-> r.status, attempts |-> 0]
    /\ UNCHANGED <<pDbConnected, pAttempts, pInFlight, pTimers, pStarted>>
    /\ UNCHANGED <<serverVars, jsonVars, driverParsesJson, exchVars, msgVars>>

ProdReqPostUsers ==
    /\ pStarted
    /\ \E up \in BOOLEAN, body \in ProdPostBodies :
         ProdServe("POST /api/users", prod_PostUsers(up, pUsers, body))

ProdReqLogin ==
    /\ pStarted
    /\ \E up \in BOOLEAN, body \in LoginBodies :
         ProdServe("POST /api/login", prod_Login(up, pUsers, body))

NextProd ==
    \/ ProdInitialCheck
    \/ ProdIntervalTick
    \/ ProdRetryTimerFires
    \/ ProdCheckSettles
    \/ ProdReqStatus
    \/ ProdReqPostUsers
    \/ ProdReqLogin

ServerIdle ==
    /\ phase = "start" /\ dbConnected = FALSE /\ dbConnectionAttempts = 0
    /\ retryTimer = FALSE /\ users = EmptyTable
    /\ last = [op |-> "none", id |-> Undef, status |-> 0]

InitProd ==
    /\ ServerIdle
    /\ ProdIdle
    /\ JsonIdle
    /\ ExchIdle
    /\ MsgIdle
    /\ driverParsesJson \in BOOLEAN

SpecProd == InitProd /\ [][NextProd]_vars

\* C2: the connection attempt counter of server-production.js, as logged and as
\* reported by GET /api/status, never exceeds maxDbRetries under any
\* interleaving of the initial check, the retry timers and the interval.
C2_CounterBounded ==
    /\ pAttempts <= maxDbRetries
    /\ pLast.op = "GET /api/status" => pLast.attempts <= maxDbRetries

\* C4: while the database answers, POST /api/login with the email of a stored
\* user and a password that differs from the stored one responds 401 and
\* returns no token.
C4_WrongPasswordRefused ==
    pStarted =>
      \A body \in LoginBodies, row \in Rows(pUsers) :
        (/\ OrEmpty(body.password) # ""
         /\ row.email = body.email /\ row.password # body.password) =>
            LET r == prod_Login(TRUE, pUsers, body)
            IN  r.status = 401 /\ NoToken(r)

(***************************************************************************)
(* The round trip of a skills array through POST /api/users and            *)
(* GET /api/users/:id of server.js, with the connection up.                *)
(***************************************************************************)
MaxSkills == 2

SkillC == JObj(<< <<Chars_name, JStr(<<"c">>)>> >>)

SkillPool == {SkillJs, SkillGo, SkillC, JObj(<<>>), JNum(5), JNull,
              JObj(<< <<Chars_name, JStr(<<>>)>> >>)}

SkillArrays == UNION {[1..k -> SkillPool] : k \in 0..MaxSkills}

\* column values written by something else than the handlers: NULL, the empty
\* text and texts that are no JSON
RawColumns == {JNull, JStr(<<>>), JStr(<<"{">>), JStr(<<"[", "1", ",">>),
               JStr(<<"o", "o", "p", "s">>)}

Answer(op, r) ==
    [op |-> op, status |-> r.status,
     known |-> IF r.status \in {200, 201} THEN r.body.user.skillsKnown ELSE JUndef,
     learn |-> IF r.status \in {200, 201} THEN r.body.user.skillsToLearn ELSE JUndef]

\* the body of a POST /api/users that carries xs in one of the skills fields
JsonBody(xs, field) ==
    Body("u1", "n1", "e1@x.io",
         Optional("p1", Undef, Undef,
                  IF field = "skillsKnown" THEN JArr(xs) ELSE JUndef,
                  IF field = "skillsToLearn" THEN JArr(xs) ELSE JUndef))

JsonPosted(body, r) ==
    /\ jUsers' = r.tbl
    /\ jIn' = IF r.status = 201
              THEN [how |-> "post", known |-> body.skillsKnown,
                    learn |-> body.skillsToLearn]
              ELSE jIn
    /\ jOut' = Answer("POST /api/users", r)

\* POST /api/users with a skills array in skillsKnown or in skillsToLearn
JsonPost ==
    /\ jUsers["u1"] = NoRow
    /\ \E xs \in SkillArrays, field \in {"skillsKnown", "skillsToLearn"} :
         JsonPosted(JsonBody(xs, field), PostUsers(TRUE, jUsers, JsonBody(xs, field)))
    /\ UNCHANGED <<serverVars, prodVars, driverParsesJson, exchVars, msgVars>>

\* a row whose skills columns were not written by the handlers
JsonStoreRaw ==
    /\ jUsers["u1"] = NoRow
    /\ \E known \in RawColumns, learn \in RawColumns :
         /\ jUsers' = [jUsers EXCEPT !["u1"] =
                          [SeedRow EXCEPT !.skills_known = known,
                                          !.skills_to_learn = learn]]
         /\ jIn' = [how |-> "raw", known |-> known, learn |-> learn]
    /\ jOut' = NoAnswer
    /\ UNCHANGED <<serverVars, prodVars, driverParsesJson, exchVars, msgVars>>

\* GET /api/users/:id
JsonGet ==
    /\ jOut' = Answer("GET /api/users/:id", GetUser(TRUE, jUsers, "u1"))
    /\ UNCHANGED <<jIn, jUsers, serverVars, prodVars, driverParsesJson, exchVars, msgVars>>

NextJson ==
    \/ JsonPost
    \/ JsonStoreRaw
    \/ JsonGet

InitJson ==
    /\ ServerIdle
    /\ ProdIdle
    /\ JsonIdle
    /\ ExchIdle
    /\ MsgIdle
    /\ driverParsesJson \in BOOLEAN

SpecJson == InitJson /\ [][NextJson]_vars

\* the array the handler stores for a skills value of the body
Validated(v) == IF Falsy(v) THEN JArr(<<>>) ELSE validateSkillsArray(v).v

\* C10: a skills array accepted by validateSkillsArray and written with
\* POST /api/users is returned by GET /api/users/:id as an array equal to the
\* validated array; a stored value that is null, empty or not parsable is
\* returned as the empty array, and the response is no error.
C10_RoundTrip ==
    jOut.op = "GET /api/users/:id" =>
      /\ jIn.how = "post" =>
            /\ jOut.status = 200
            /\ jOut.known = Validated(jIn.known)
            /\ jOut.learn = Validated(jIn.learn)
      /\ jIn.how = "raw" =>
            /\ jOut.status = 200
            /\ jOut.known = JArr(<<>>)
            /\ jOut.learn = JArr(<<>>)

\* what does hold: the round trip is exact when the driver hands the column
\* back as text, and a raw value is always read as the empty array
RoundTripOfText ==
    (jOut.op = "GET /api/users/:id" /\ (~driverParsesJson \/ jIn.how = "raw")) =>
        C10_RoundTrip

\* when the driver hands the column back parsed, every stored array is read
\* as the empty array
ParsedColumnReadsEmpty ==
    (jOut.op = "GET /api/users/:id" /\ driverParsesJson /\ jIn.how = "post") =>
        (jOut.status = 200 /\ jOut.known = JArr(<<>>) /\ jOut.learn = JArr(<<>>))

(***************************************************************************)
(* server.js: the exchange request routes                                  *)
(***************************************************************************)
mapExchangeRequestRow(row) ==
    [id |-> row.id, requesterId |-> row.requester_id, targetId |-> row.target_id,
     skillToTeach |-> row.skill_to_teach, skillToLearn |-> row.skill_to_learn,
     message |-> row.message, status |-> row.status]

\* !x for a field of req.body that is a string or absent
Not(x) == x \in {Undef, ""}

\* POST /api/requests, after the SELECT; insertedRequests[0] of an empty
\* result is undefined and mapExchangeRequestRow throws a TypeError
PostRequestSelected(q) ==
    IF q.err # NoErr
    THEN Reply(q.tbl, 500, ErrorBody("Failed to create exchange request"), q.err)
    ELSE IF q.rows = <<>>
    THEN Reply(q.tbl, 500, ErrorBody("Failed to create exchange request"),
               Err("TypeError", <<"Cannot read properties of undefined (reading 'id')">>))
    ELSE Reply(q.tbl, 201, mapExchangeRequestRow(q.rows[1]), NoErr)

\* POST /api/requests, after the INSERT
PostRequestInserted(connected, id, q) ==
    IF q.err # NoErr
    THEN Reply(q.tbl, 500, ErrorBody("Failed to create exchange request"), q.err)
    ELSE PostRequestSelected(query(connected, q.tbl, SqlSelectRequest, <<id>>))

\* POST /api/requests; id is the value of crypto.randomUUID()
PostRequests(connected, db, id, body) ==
    IF Not(body.requesterId) \/ Not(body.targetId)
       \/ Not(body.skillToTeach) \/ Not(body.skillToLearn)
    THEN Reply(db, 400,
               ErrorBody("Requester ID, target ID, skill to teach, and skill to learn are required"),
               NoErr)
    ELSE PostRequestInserted(connected, id,
             query(connected, db, SqlInsertRequest,
                   <<id, body.requesterId, body.targetId, body.skillToTeach,
                     body.skillToLearn, OrEmpty(body.message)>>))

\* ['pending', 'accepted', 'declined', 'completed']
AllowedStatuses == {"pending", "accepted", "declined", "completed"}

\* PUT /api/requests/:id/status, after the SELECT
StatusReselected(q) ==
    IF q.err # NoErr
    THEN Reply(q.tbl, 500, ErrorBody("Failed to update exchange request"), q.err)
    ELSE IF Len(q.rows) = 0
    THEN Reply(q.tbl, 500, ErrorBody("Failed to update exchange request"),
               Err("Error", <<"Exchange request update failed">>))
    ELSE Reply(q.tbl, 200, mapExchangeRequestRow(q.rows[1]), NoErr)

\* PUT /api/requests/:id/status, after the UPDATE
StatusWritten(connected, id, q) ==
    IF q.err # NoErr
    THEN Reply(q.tbl, 500, ErrorBody("Failed to update exchange request"), q.err)
    ELSE StatusReselected(query(connected, q.tbl, SqlSelectRequest, <<id>>))

\* variant: the status of the body goes to the UPDATE unchecked
PutRequestStatusUnchecked(connected, db, id, body) ==
    StatusWritten(connected, id,
                  query(connected, db, SqlSetStatus, <<body.status, id>>))

\* PUT /api/requests/:id/status
PutRequestStatus(connected, db, id, body) ==
    IF body.status \notin AllowedStatuses
    THEN Reply(db, 400, ErrorBody("Invalid status"), NoErr)
    ELSE StatusWritten(connected, id,
                       query(connected, db, SqlSetStatus, <<body.status, id>>))

\* the bodies of POST /api/requests: complete ones, with a stored or an
\* unknown target, and one per missing field
RequestBody(requesterId, targetId, skillToTeach, skillToLearn, message) ==
    [requesterId |-> requesterId, targetId |-> targetId,
     skillToTeach |-> skillToTeach, skillToLearn |-> skillToLearn,
     message |-> message]

RequestBodies ==
    {RequestBody(a, b, "js", "go", m) :
        a \in {"u1", "u2"}, b \in {"u2", "u9"}, m \in {Undef, "hi"}}
    \cup {RequestBody(Undef, "u2", "js", "go", "hi"),
          RequestBody("u1", "", "js", "go", "hi"),
          RequestBody("u1", "u2", Undef, "go", "hi"),
          RequestBody("u1", "u2", "js", "", "hi")}

\* the bodies of PUT /api/requests/:id/status
StatusBodies ==
    {[status |-> v] : v \in AllowedStatuses
                        \cup {Undef, "", "cancelled", "PENDING", "pending ", "1"}}

\* the :id of the route: a stored or an unknown request
RouteIds == RequestIds \cup {"r9"}

\* both users stored
TwoUsers == [i \in IDs |-> [SeedRow EXCEPT !.id = i, !.email = i]]

ExchServe(op, id, r) ==
    /\ exchange_requests' = r.tbl.rows
    /\ xLast' = Handled(op, id, r)
    /\ UNCHANGED <<serverVars, prodVars, jsonVars, driverParsesJson, msgVars>>

ReqPostRequests ==
    /\ phase = "listening"
    /\ \E id \in RequestIds, body \in RequestBodies :
         ExchServe("POST /api/requests", id,
                   PostRequests(dbConnected, Database(users, exchange_requests), id, body))

ReqPutRequestStatus ==
    /\ phase = "listening"
    /\ \E id \in RouteIds, body \in StatusBodies :
         ExchServe("PUT /api/requests/:id/status", id,
                   PutRequestStatus(dbConnected, Database(users, exchange_requests), id, body))

NextExch ==
    \/ InitializeServer
    \/ RetryTimerFires
    \/ ReqPostRequests
    \/ ReqPutRequestStatus

InitExch ==
    /\ phase = "start" /\ dbConnected = FALSE /\ dbConnectionAttempts = 0
    /\ retryTimer = FALSE /\ users = TwoUsers
    /\ last = [op |-> "none", id |-> Undef, status |-> 0]
    /\ ProdIdle
    /\ JsonIdle
    /\ ExchIdle
    /\ MsgIdle
    /\ driverParsesJson = FALSE

SpecExch == InitExch /\ [][NextExch]_vars

StoredRequests(tbl) == {tbl[i] : i \in RequestIds} \ {NoRow}

\* POST /api/requests answers 201 with a request whose status is 'pending',
\* stored under the new id, and touches no other row
PostCreatesPending(id, body) ==
    LET r == PostRequests(dbConnected, Database(users, exchange_requests), id, body)
    IN  /\ r.status = 201 =>
              /\ r.body.status = "pending"
              /\ r.tbl.rows[id] # NoRow
              /\ r.tbl.rows[id].status = "pending"
        /\ \A i \in RequestIds \ {id} : r.tbl.rows[i] = exchange_requests[i]
        /\ r.tbl.rows[id] # exchange_requests[id] => r.status = 201

\* PUT /api/requests/:id/status with a value outside the set answers 400 and
\* changes nothing
PutRefusesOthers(id, body) ==
    LET r == PutRequestStatus(dbConnected, Database(users, exchange_requests), id, body)
    IN  body.status \notin {"pending", "accepted", "declined", "completed"} =>
            r.status = 400 /\ r.tbl.rows = exchange_requests

\* C11: every stored exchange request has a status in {pending, accepted,
\* declined, completed} in every reachable state; POST /api/requests creates
\* the request with status 'pending'; PUT /api/requests/:id/status with a value
\* outside the set answers 400 and leaves the requests unchanged.
C11_StatusInSet ==
    /\ \A row \in StoredRequests(exchange_requests) :
          row.status \in {"pending", "accepted", "declined", "completed"}
    /\ \A id \in RequestIds, body \in RequestBodies : PostCreatesPending(id, body)
    /\ \A id \in RouteIds, body \in StatusBodies : PutRefusesOthers(id, body)

\* a request was created, moved to 'completed', and a later PUT with a value
\* outside the set was answered 400
C11_Witness ==
    /\ \E row \in StoredRequests(exchange_requests) : row.status = "completed"
    /\ \E row \in StoredRequests(exchange_requests) : row.status = "pending"
    /\ xLast.op = "PUT /api/requests/:id/status" /\ xLast.status = 400
    /\ xLast.id \in RequestIds /\ exchange_requests[xLast.id] # NoRow

(***************************************************************************)
(* server.js: the message routes                                           *)
(***************************************************************************)
\* timestamp: Number(row.timestamp), read: !!row.read
mapMessageRow(row) ==
    [id |-> row.id, senderId |-> row.sender_id, receiverId |-> row.receiver_id,
     content |-> row.content, timestamp |-> row.timestamp, read |-> row.read]

\* POST /api/messages, after the SELECT
PostMessageSelected(q) ==
    IF q.err # NoErr
    THEN Reply(q.tbl, 500, ErrorBody("Failed to send message"), q.err)
    ELSE IF Len(q.rows) = 0
    THEN Reply(q.tbl, 500, ErrorBody("Failed to send message"),
               Err("Error", <<"Message insertion failed">>))
    ELSE Reply(q.tbl, 201, mapMessageRow(q.rows[1]), NoErr)

\* POST /api/messages, after the INSERT
PostMessageInserted(connected, id, q) ==
    IF q.err # NoErr
    THEN Reply(q.tbl, 500, ErrorBody("Failed to send message"), q.err)
    ELSE PostMessageSelected(query(connected, q.tbl, SqlSelectMessage, <<id>>))

\* POST /api/messages; timestamp is Date.now() and id crypto.randomUUID()
PostMessages(connected, db, id, timestamp, body) ==
    IF Not(body.senderId) \/ Not(body.receiverId) \/ Not(body.content)
    THEN Reply(db, 400, ErrorBody("Sender ID, receiver ID, and content are required"), NoErr)
    ELSE PostMessageInserted(connected, id,
             query(connected, db, SqlInsertMessage,
                   <<id, body.senderId, body.receiverId, body.content, timestamp>>))

\* GET /api/messages/unread-count, after the SELECT
UnreadCounted(q) ==
    IF q.err # NoErr
    THEN Reply(q.tbl, 500, ErrorBody("Failed to fetch unread count"), q.err)
    ELSE Reply(q.tbl, 200, [unreadCount |-> q.rows[1].unreadCount], NoErr)

\* GET /api/messages/unread-count
UnreadCount(connected, db, userId) ==
    IF Not(userId)
    THEN Reply(db, 400, ErrorBody("User ID is required"), NoErr)
    ELSE UnreadCounted(query(connected, db, SqlUnreadCount, <<userId>>))

\* POST /api/messages/mark-as-read, after the UPDATE
MarkedAsRead(q) ==
    IF q.err # NoErr
    THEN Reply(q.tbl, 500, ErrorBody("Failed to mark messages as read"), q.err)
    ELSE Reply(q.tbl, 200, [success |-> TRUE], NoErr)

\* POST /api/messages/mark-as-read
MarkAsRead(connected, db, body) ==
    IF Not(body.userId) \/ Not(body.senderId)
    THEN Reply(db, 400, ErrorBody("User ID and sender ID are required"), NoErr)
    ELSE MarkedAsRead(query(connected, db, SqlMarkAsRead, <<body.userId, body.senderId>>))

\* Date.now()
Timestamps == {1, 2}

\* the bodies of POST /api/messages
MessageBodies ==
    {[senderId |-> a, receiverId |-> b, content |-> "hi"] : a \in IDs, b \in IDs}
    \cup {[senderId |-> Undef, receiverId |-> "u2", content |-> "hi"],
          [senderId |-> "u1", receiverId |-> "", content |-> "hi"],
          [senderId |-> "u1", receiverId |-> "u2", content |-> Undef],
          [senderId |-> "u1", receiverId |-> "u9", content |-> "hi"]}

\* the bodies of POST /api/messages/mark-as-read
ReadBodies ==
    {[userId |-> a, senderId |-> b] : a \in IDs \cup {Undef}, b \in IDs \cup {""}}

MsgServe(op, r) ==
    /\ messages' = r.tbl.rows
    /\ mLast' = [op |-> op, status |-> r.status,
                 unreadCount |-> IF op = "GET /api/messages/unread-count" /\ r.status = 200
                                 THEN r.body.unreadCount ELSE 0]
    /\ UNCHANGED <<serverVars, prodVars, jsonVars, driverParsesJson, exchVars>>

ReqPostMessages ==
    /\ phase = "listening"
    /\ \E id \in MessageIds, timestamp \in Timestamps, body \in MessageBodies :
         MsgServe("POST /api/messages",
                  PostMessages(dbConnected, Database(users, messages), id, timestamp, body))

ReqUnreadCount ==
    /\ phase = "listening"
    /\ \E userId \in IDs \cup {Undef} :
         MsgServe("GET /api/messages/unread-count",
                  UnreadCount(dbConnected, Database(users, messages), userId))

ReqMarkAsRead ==
    /\ phase = "listening"
    /\ \E body \in ReadBodies :
         MsgServe("POST /api/messages/mark-as-read",
                  MarkAsRead(dbConnected, Database(users, messages), body))

NextMsg ==
    \/ InitializeServer
    \/ RetryTimerFires
    \/ ReqPostMessages
    \/ ReqUnreadCount
    \/ ReqMarkAsRead

InitMsg ==
    /\ phase = "start" /\ dbConnected = FALSE /\ dbConnectionAttempts = 0
    /\ retryTimer = FALSE /\ users = TwoUsers
    /\ last = [op |-> "none", id |-> Undef, status |-> 0]
    /\ ProdIdle
    /\ JsonIdle
    /\ ExchIdle
    /\ MsgIdle
    /\ driverParsesJson = FALSE

SpecMsg == InitMsg /\ [][NextMsg]_vars

StoredMessages(tbl) == {i \in MessageIds : tbl[i] # NoRow}
Between(tbl, senderId, userId) ==
    {i \in StoredMessages(tbl) : tbl[i].sender_id = senderId /\ tbl[i].receiver_id = userId}

\* the response of GET /api/messages/unread-count for userId counts no message
\* from senderId
CountsNoneFrom(tbl, userId, senderId) ==
    LET r == UnreadCount(dbConnected, Database(users, tbl), userId)
    IN  /\ r.status = 200
        /\ r.body.unreadCount =
             Cardinality({i \in StoredMessages(tbl) :
                             /\ tbl[i].receiver_id = userId
                             /\ tbl[i].sender_id # senderId
                             /\ ~tbl[i].read})

\* C12: POST /api/messages/mark-as-read with {userId, senderId} sets read = true
\* on exactly the messages sent by senderId to userId and leaves every other
\* message unchanged; afterwards GET /api/messages/unread-count for userId
\* counts no message from senderId.  Stated for a connected database.
C12_MarkAsRead ==
    dbConnected =>
      \A body \in ReadBodies :
        ~Not(body.userId) /\ ~Not(body.senderId) =>
          LET r == MarkAsRead(dbConnected, Database(users, messages), body)
          IN  /\ \A i \in Between(messages, body.senderId, body.userId) :
                    r.tbl.rows[i] = [messages[i] EXCEPT !.read = TRUE]
              /\ \A i \in MessageIds \ Between(messages, body.senderId, body.userId) :
                    r.tbl.rows[i] = messages[i]
              /\ CountsNoneFrom(r.tbl.rows, body.userId, body.senderId)

\* what the two routes do instead: whenever their statement reaches the
\* server it is refused, so they answer 400 or 500, no message is ever marked
\* read and no message changes
ReadRoutesFail ==
    /\ \A i \in StoredMessages(messages) : ~messages[i].read
    /\ \A body \in ReadBodies :
          LET r == MarkAsRead(dbConnected, Database(users, messages), body)
          IN  r.status \in {400, 500} /\ r.tbl.rows = messages
    /\ \A userId \in IDs \cup {Undef} :
          UnreadCount(dbConnected, Database(users, messages), userId).status \in {400, 500}

\* a message u1 -> u2 is stored and unread, and the last mark-as-read was
\* answered 500 with the database connected
MarkAsReadRefused ==
    /\ dbConnected
    /\ Between(messages, "u1", "u2") # {}
    /\ mLast.op = "POST /api/messages/mark-as-read" /\ mLast.status = 500

====
